---- MODULE Spec2Model ----
(***************************************************************************)
(* HH_Parse (src/main.py): a batch job that pages through the hh.ru        *)
(* vacancies API with a retrying request wrapper, filters every page by a  *)
(* minimum salary, accumulates the survivors and saves them as JSON.       *)
(*                                                                         *)
(* Spec        the whole run of main()                                     *)
(* LiveSpec    Spec with weak fairness of the single thread of control     *)
(* RetrySpec   one invocation of retry_request.wrapper, any max_retries    *)
(* FilterSpec  filter_by_salary applied to bounded inputs                  *)
(***************************************************************************)
EXTENDS Integers, Sequences, FiniteSets, TLC

VARIABLES
    pc,             \* position of the single thread of control
    max_retries,    \* retry_request(max_retries=...)
    initial_delay,  \* retry_request(initial_delay=...)
    backoff_factor, \* retry_request(backoff_factor=...)
    min_salary,     \* fetch_all(min_salary=...)
    api_pages,      \* the `pages` total the API reports; 0: it varies from call to call
    page,           \* fetch_all: page
    all_vacancies,  \* fetch_all: all_vacancies
    retries,        \* wrapper: retries
    delay,          \* wrapper: delay
    outcome,        \* what the last call of func did (a response or an exception)
    result,         \* how the last invocation of wrapper ended
    vacancies,      \* fetch_all: vacancies, the value fetch_hh_vac returned
    errlog,         \* the error fetch_hh_vac logged for the current page
    calls,          \* history: calls of func in the current invocation of wrapper
    nfail,          \* history: calls of the current invocation that failed retryably
    sleeps,         \* history: time.sleep(delay) arguments of the current invocation
    fetched,        \* history: page indices passed to fetch_hh_vac
    processed,      \* history: pages whose survivors reached all_vacancies.extend
    pauses,         \* history: inter-page time.sleep(0.2) calls
    summary,        \* main: which summary line was logged
    saves,          \* history: calls of save_to_file
    file,           \* the output file
    f_in,           \* FilterSpec: the vacancies argument
    f_min,          \* FilterSpec: the min_salary argument
    f_out,          \* FilterSpec: what filter_by_salary did
    f_pc,            \* FilterSpec: "call" before, "done" after
    retried_earlier \* an earlier invocation of wrapper in this run slept and retried

vars == <<pc, max_retries, initial_delay, backoff_factor, min_salary,
          api_pages, page, all_vacancies, retries, delay,
          outcome, result, vacancies, errlog, calls, nfail, sleeps, fetched,
          processed, pauses, summary, saves, file, retried_earlier,
          f_in, f_min, f_out, f_pc>>

runVars == <<pc, max_retries, initial_delay, backoff_factor, min_salary,
             api_pages, page, all_vacancies, retries, delay,
             outcome, result, vacancies, errlog, calls, nfail, sleeps, fetched,
             processed, pauses, summary, saves, file, retried_earlier>>

filterVars == <<f_in, f_min, f_out, f_pc>>

(***************************************************************************)
(* Program constants                                                       *)
(***************************************************************************)
DEFAULT_MAX_RETRIES == 3
INITIAL_DELAY == 1
BACKOFF_FACTOR == 2
MAIN_MIN_SALARY == 250000
PAGE_CAP == 19
RetryableStatusCodes == {429, 500, 502, 503, 504}

(***************************************************************************)
(* Bounds of the model                                                     *)
(***************************************************************************)
MaxMaxRetries == 3   \* max_retries is drawn from -1 .. MaxMaxRetries
MaxRichPages == 1    \* pages below this index serve every item list
BigPages == 25       \* a `pages` total beyond the hard cap
MaxLen == 2          \* FilterSpec: longest input list
MaxTimeParam == 2    \* RetrySpec: initial_delay, backoff_factor in 1 .. MaxTimeParam
MaxTotalPages == 3   \* ConstPagesSpec: a constant total is in 1 .. MaxTotalPages or BigPages

(***************************************************************************)
(* JSON / Python values.  Every value is a record so that values of        *)
(* different Python types stay comparable.                                 *)
(***************************************************************************)
\* a salary bound: None (or missing key), a number, or a non-empty string
NoneB == [tag |-> "none", n |-> 0]
Num(n) == [tag |-> "num", n |-> n]
StrB == [tag |-> "str", n |-> 0]

\* vacancy.get('salary'): None/missing, {}, a mapping, or a truthy non-mapping
NoSalary == [tag |-> "none", from |-> NoneB, to |-> NoneB]
EmptySalary == [tag |-> "empty", from |-> NoneB, to |-> NoneB]
BadSalary == [tag |-> "notdict", from |-> NoneB, to |-> NoneB]
Salary(f, t) == [tag |-> "dict", from |-> f, to |-> t]

\* an element of `items`: a mapping or something else (a number, a string)
Vac(id, s) == [tag |-> "dict", id |-> id, salary |-> s]
NotAVac == [tag |-> "notdict", id |-> 0, salary |-> NoSalary]

(***************************************************************************)
(* filter_by_salary (lines 108-122)                                        *)
(***************************************************************************)
\* Python truthiness of a salary bound: None and 0 are falsy
Truthy(b) == b.tag = "str" \/ (b.tag = "num" /\ b.n # 0)

\* `bound and bound >= min_salary`: "yes", "no", or "raise" (str >= int)
BoundOk(b, m) ==
    IF ~Truthy(b) THEN "no"
    ELSE IF b.tag = "str" THEN "raise"
    ELSE IF b.n >= m THEN "yes" ELSE "no"

\* lines 118-119, with the short circuit of `or`
SalaryOk(s, m) ==
    LET f == BoundOk(s.from, m)
    IN  IF f = "no" THEN BoundOk(s.to, m) ELSE f

Keep_anySalary(v, m) ==
    IF v.tag # "dict" THEN "raise"
    ELSE IF v.salary.tag \in {"none", "empty"} THEN "drop"
    ELSE IF v.salary.tag = "notdict" THEN "raise"
    ELSE "keep"

\* the loop body, lines 112-120: "keep", "drop" or "raise"
Keep(v, m) ==
    IF v.tag # "dict" THEN "raise"                \* vacancy.get: AttributeError
    ELSE IF v.salary.tag \in {"none", "empty"} THEN "drop"     \* `if salary:`
    ELSE IF v.salary.tag = "notdict" THEN "raise" \* salary.get: AttributeError
    ELSE LET r == SalaryOk(v.salary, m)
         IN  IF r = "yes" THEN "keep" ELSE IF r = "no" THEN "drop" ELSE "raise"

RECURSIVE FilterFrom(_, _, _, _)
FilterFrom(vs, m, i, filtered) ==
    IF i > Len(vs) THEN [raised |-> FALSE, out |-> filtered]
    ELSE LET k == Keep(vs[i], m)
         IN  IF k = "raise" THEN [raised |-> TRUE, out |-> filtered]
             ELSE FilterFrom(vs, m, i + 1,
                             IF k = "keep" THEN Append(filtered, vs[i])
                             ELSE filtered)

RECURSIVE Reverse(_)
Reverse(q) == IF q = <<>> THEN <<>> ELSE Append(Reverse(Tail(q)), q[1])

filter_by_salary_insert0(vs, m) ==
    LET r == FilterFrom(vs, m, 1, <<>>)
    IN  [raised |-> r.raised, out |-> Reverse(r.out)]

\* filter_by_salary(vacancies, min_salary): the list returned, or an exception
filter_by_salary(vs, m) == FilterFrom(vs, m, 1, <<>>)

(***************************************************************************)
(* Page responses                                                          *)
(***************************************************************************)
\* vacancies.get('items'): missing key, null, or a list
ItemsMissing == [tag |-> "missing", elems |-> <<>>]
ItemsNull == [tag |-> "null", elems |-> <<>>]
Items(l) == [tag |-> "list", elems |-> l]

\* vacancies.get('pages', 0): missing key, null, a string, or an integer
PagesMissing == [tag |-> "missing", n |-> 0]
PagesNull == [tag |-> "null", n |-> 0]
PagesStr == [tag |-> "str", n |-> 0]
Pages(n) == [tag |-> "int", n |-> n]

\* a response body.  kind: "object" (a JSON object), "null", "list" (a
\* non-empty array without the string "items"), "list_items" (an array that
\* holds the string "items"), "number" (a non-zero number), "malformed" (not
\* JSON), "none" (no body: Python None)
Body(k, i, p) == [kind |-> k, items |-> i, pages |-> p]
Object(i, p) == Body("object", i, p)
Other(k) == Body(k, ItemsMissing, PagesMissing)
NoneValue == Other("none")

\* what one call of func (requests.get) did
Resp(st, b) == [kind |-> "resp", status |-> st, body |-> b]
NetErr == [kind |-> "neterr", status |-> 0, body |-> NoneValue]
OtherErr == [kind |-> "othererr", status |-> 0, body |-> NoneValue]
NoOutcome == [kind |-> "none", status |-> 0, body |-> NoneValue]

\* how wrapper ended: returned None, returned a response, let an exception out
Pending == [kind |-> "pending", resp |-> NoOutcome]
RetNone == [kind |-> "none", resp |-> NoOutcome]
RetValue(o) == [kind |-> "value", resp |-> o]
Raised(o) == [kind |-> "raise", resp |-> o]

(***************************************************************************)
(* The remote API, bounded                                                 *)
(***************************************************************************)
vHi == Vac(1, Salary(Num(300000), NoneB))
vTo == Vac(2, Salary(Num(100000), Num(250000)))
vLo == Vac(3, Salary(Num(100000), NoneB))
vZero == Vac(4, Salary(Num(0), NoneB))
vStr == Vac(5, Salary(NoneB, StrB))

\* item lists the loop survives, and item lists filter_by_salary raises on
GoodItemLists == {<<vLo, vHi>>, <<vTo, vHi>>, <<vZero, vLo>>}
BadItemLists == {<<vHi, NotAVac>>, <<vStr>>}
TailItems == <<vLo, vHi>>

ItemListsAt(p) == IF p < MaxRichPages THEN GoodItemLists ELSE {TailItems}

PagesAt(p) ==
    IF api_pages # 0 THEN {Pages(api_pages)}
    ELSE {PagesMissing, PagesNull, PagesStr}
             \cup {Pages(n) : n \in {0, p + 1, p + 2, BigPages}}

\* the total beside an item list the loop never reads `pages` of
SomePages == IF api_pages # 0 THEN Pages(api_pages) ELSE Pages(BigPages)

\* bodies a status-200 response for page p can carry
BodiesAt(p) ==
    {Object(Items(l), pg) : l \in ItemListsAt(p), pg \in PagesAt(p)}
        \cup {Object(Items(l), SomePages) : l \in BadItemLists \cup {<<>>}}
        \cup {Object(ItemsMissing, SomePages), Object(ItemsNull, SomePages)}
        \cup {Other(k) : k \in {"null", "list", "list_items", "number", "malformed"}}

\* 204 and 404: statuses that are neither 200 nor retryable
OtherStatuses == {204, 404}

OutcomesAt(p) ==
    {Resp(200, b) : b \in BodiesAt(p)}
        \cup {Resp(st, NoneValue) : st \in RetryableStatusCodes \cup OtherStatuses}
        \cup {NetErr, OtherErr}

(***************************************************************************)
(* retry_request.wrapper (lines 26-60)                                     *)
(***************************************************************************)
\* line 30
LoopCond_strict(r, n) == r < n
LoopCond(r, n) == r <= n

\* line 51
BudgetSpent(r, n) == r = n

\* lines 34-48: what the wrapper does with one call's outcome
Classify_retryAll(o) ==
    IF o.kind = "resp" THEN (IF o.status = 200 THEN "return" ELSE "retry")
    ELSE IF o.kind = "neterr" THEN "retry"
    ELSE "propagate"
Classify_with200(o) ==
    IF o.kind = "resp"
    THEN (IF o.status \in RetryableStatusCodes \cup {200} THEN "retry" ELSE "return")
    ELSE IF o.kind = "neterr" THEN "retry"
    ELSE "propagate"
Classify(o) ==
    IF o.kind = "resp"                       \* hasattr(result, 'status_code')
    THEN (IF o.status = 200 THEN "return"
          ELSE IF o.status \in RetryableStatusCodes THEN "retry"
          ELSE "return")
    ELSE IF o.kind = "neterr" THEN "retry"   \* RequestException and subclasses
    ELSE "propagate"                         \* any other exception

\* line 57
NextDelay_add(d) == d + backoff_factor
NextDelay(d) == d * backoff_factor

(***************************************************************************)
(* fetch_hh_vac (lines 72-104)                                             *)
(***************************************************************************)
Msg(m, c) == [msg |-> m, code |-> c]
NoMsg == Msg("", 0)

\* `not response` at line 85 is False exactly when Response.__bool__ is True,
\* and requests defines that as Response.ok: the status is not in 400..599
ResponseTruthy(o) == ~(400 <= o.status /\ o.status < 600)

\* response.json(): the decoded value, or JSONDecodeError
Decode(b) == IF b.kind = "null" THEN NoneValue ELSE b

\* lines 82-104 given how make_request ended: the value returned and the
\* error logged
fetch_hh_vac(res) ==
    IF res.kind = "raise"
    THEN [ret |-> NoneValue, log |-> Msg("unexpected", 0)]          \* 102-104
    ELSE IF res.kind = "none" \/ ~ResponseTruthy(res.resp)
    THEN [ret |-> NoneValue, log |-> Msg("request_failed", 0)]      \* 85-87
    ELSE IF res.resp.status # 200
    THEN [ret |-> NoneValue, log |-> Msg("http_status", res.resp.status)] \* 89-91
    ELSE IF res.resp.body.kind = "malformed"
    THEN [ret |-> NoneValue, log |-> Msg("json_error", 0)]          \* 99-101
    ELSE [ret |-> Decode(res.resp.body), log |-> NoMsg]             \* 93-94

(***************************************************************************)
(* fetch_all (lines 125-155)                                               *)
(***************************************************************************)
\* line 144
Extend_prepend(acc, filtered) == filtered \o acc
Extend(acc, filtered) == acc \o filtered

\* line 148
LastPage_late(p, pages) == p >= pages
LastPage(p, pages) == p >= pages - 1
HardCap_off(p) == FALSE
HardCap(p) == p >= PAGE_CAP

\* line 152
NextPage_same(p) == p
NextPage(p) == p + 1

Step(n, acc, ext) == [next |-> n, acc |-> acc, extended |-> ext]

\* lines 146-150 for a page whose survivors are already in acc
PagesCheck(v, p, acc) ==
    IF v.pages.tag \in {"null", "str"}
    THEN Step("raise", acc, TRUE)             \* pages - 1: TypeError
    ELSE LET pages == IF v.pages.tag = "missing" THEN 0 ELSE v.pages.n
         IN  IF LastPage(p, pages) \/ HardCap(p)
             THEN Step("break", acc, TRUE)
             ELSE Step("continue", acc, TRUE)

\* `not vacancies` at line 133
Falsy_off(v) == FALSE
Falsy(v) == v.kind = "none"

\* one iteration of the loop after fetch_hh_vac returned v: lines 133-153
LoopBody(v, p, acc, m) ==
    IF Falsy(v) THEN Step("break", acc, FALSE)
    ELSE IF v.kind \in {"number", "none"}       \* 'items' in 5, 'items' in None
    THEN Step("raise", acc, FALSE)
    ELSE IF v.kind = "list" THEN Step("break", acc, FALSE)
    ELSE IF v.kind = "list_items" THEN Step("raise", acc, FALSE) \* list.get
    ELSE IF v.items.tag = "missing" THEN Step("break", acc, FALSE)
    ELSE IF v.items.tag = "null" \/ v.items.elems = <<>>
    THEN Step("break", acc, FALSE)                             \* 138-140
    ELSE LET f == filter_by_salary(v.items.elems, m)
         IN  IF f.raised THEN Step("raise", acc, FALSE)
             ELSE PagesCheck(v, p, Extend(acc, f.out))

(***************************************************************************)
(* The output file (save_to_file, lines 158-171)                           *)
(***************************************************************************)
File(st, c) == [state |-> st, content |-> c]
PriorFile == File("prior", <<>>)

(***************************************************************************)
(* The run of main()                                                       *)
(***************************************************************************)
MaxRetriesValues == (-1) .. MaxMaxRetries
TimeParams == 1 .. MaxTimeParam

FilterIdle ==
    /\ f_in = <<>>
    /\ f_min = 0
    /\ f_out = [raised |-> FALSE, out |-> <<>>]
    /\ f_pc = "idle"

\* nothing has run yet
Fresh ==
    /\ page = 0
    /\ all_vacancies = <<>>
    /\ retries = 0
    /\ delay = initial_delay
    /\ outcome = NoOutcome
    /\ result = Pending
    /\ vacancies = NoneValue
    /\ errlog = NoMsg
    /\ calls = 0
    /\ nfail = 0
    /\ sleeps = <<>>
    /\ fetched = <<>>
    /\ processed = <<>>
    /\ pauses = 0
    /\ summary = ""
    /\ saves = 0
    /\ file = PriorFile
    /\ retried_earlier = FALSE

\* the module is loaded (make_request decorated at line 66) and main() is
\* about to run
Init ==
    /\ pc = "main"
    /\ max_retries = DEFAULT_MAX_RETRIES
    /\ initial_delay = INITIAL_DELAY
    /\ backoff_factor = BACKOFF_FACTOR
    /\ min_salary = MAIN_MIN_SALARY
    /\ api_pages = 0
    /\ Fresh
    /\ FilterIdle

wrapperVars == <<retries, delay, outcome, result, calls, nfail, sleeps>>
driverVars == <<page, all_vacancies, vacancies, errlog, fetched, processed, pauses>>
mainVars == <<summary, saves, file>>
params == <<max_retries, initial_delay, backoff_factor, min_salary, api_pages>>
histVars == <<retried_earlier>>

\* main calls fetch_all: lines 175-177, 127-128
MainStart ==
    /\ pc = "main"
    /\ page' = 0
    /\ all_vacancies' = <<>>
    /\ pc' = "loop"
    /\ UNCHANGED <<vacancies, errlog, fetched, processed, pauses>>
    /\ UNCHANGED <<wrapperVars, mainVars, params, histVars, filterVars>>

FetchPage_shared ==
    /\ pc = "loop"
    /\ fetched' = Append(fetched, page)
    /\ retried_earlier' = (retried_earlier \/ sleeps # <<>>)
    /\ retries' = retries
    /\ delay' = delay
    /\ outcome' = NoOutcome
    /\ result' = Pending
    /\ calls' = 0
    /\ nfail' = 0
    /\ sleeps' = <<>>
    /\ errlog' = NoMsg
    /\ pc' = "attempt"
    /\ UNCHANGED <<page, all_vacancies, vacancies, processed, pauses>>
    /\ UNCHANGED <<mainVars, params, filterVars>>

\* line 131 enters fetch_hh_vac, line 83 enters wrapper: lines 27-28
FetchPage ==
    /\ pc = "loop"
    /\ fetched' = Append(fetched, page)
    /\ retried_earlier' = (retried_earlier \/ sleeps # <<>>)
    /\ retries' = 0
    /\ delay' = initial_delay
    /\ outcome' = NoOutcome
    /\ result' = Pending
    /\ calls' = 0
    /\ nfail' = 0
    /\ sleeps' = <<>>
    /\ errlog' = NoMsg
    /\ pc' = "attempt"
    /\ UNCHANGED <<page, all_vacancies, vacancies, processed, pauses>>
    /\ UNCHANGED <<mainVars, params, filterVars>>

\* one pass of lines 30-53: call func, then return, raise or go on to sleep
Attempt(o) ==
    /\ pc = "attempt"
    /\ LoopCond(retries, max_retries)
    /\ outcome' = o
    /\ calls' = calls + 1
    /\ LET c == Classify(o)
       IN  \/ /\ c = "return"
              /\ result' = RetValue(o)
              /\ pc' = "fetcher"
              /\ UNCHANGED nfail
           \/ /\ c = "propagate"
              /\ result' = Raised(o)
              /\ pc' = "fetcher"
              /\ UNCHANGED nfail
           \/ /\ c = "retry"
              /\ nfail' = nfail + 1
              /\ IF BudgetSpent(retries, max_retries)
                 THEN result' = RetNone /\ pc' = "fetcher"
                 ELSE result' = result /\ pc' = "backoff"
    /\ UNCHANGED <<retries, delay, sleeps>>
    /\ UNCHANGED <<driverVars, mainVars, params, histVars, filterVars>>

\* lines 56-58
Backoff ==
    /\ pc = "backoff"
    /\ sleeps' = Append(sleeps, delay)
    /\ delay' = NextDelay(delay)
    /\ retries' = retries + 1
    /\ pc' = "attempt"
    /\ UNCHANGED <<outcome, result, calls, nfail>>
    /\ UNCHANGED <<driverVars, mainVars, params, histVars, filterVars>>

\* line 60: the loop condition failed.  Line 53 returns first whenever
\* max_retries >= 0, so only a negative max_retries gets here; make_request
\* is decorated with max_retries=3 and the run of main never does.
LoopExit ==
    /\ pc = "attempt"
    /\ ~LoopCond(retries, max_retries)
    /\ result' = RetNone
    /\ pc' = "fetcher"
    /\ UNCHANGED <<retries, delay, outcome, calls, nfail, sleeps>>
    /\ UNCHANGED <<driverVars, mainVars, params, histVars, filterVars>>

\* lines 85-104: fetch_hh_vac handles what make_request did and returns
FetcherReturn ==
    /\ pc = "fetcher"
    /\ LET r == fetch_hh_vac(result)
       IN  vacancies' = r.ret /\ errlog' = r.log
    /\ pc' = "driver"
    /\ UNCHANGED <<page, all_vacancies, fetched, processed, pauses>>
    /\ UNCHANGED <<wrapperVars, mainVars, params, histVars, filterVars>>

\* lines 133-152: the rest of the iteration
DriverStep ==
    /\ pc = "driver"
    /\ LET s == LoopBody(vacancies, page, all_vacancies, min_salary)
       IN  /\ all_vacancies' = s.acc
           /\ processed' = IF s.extended
                           THEN Append(processed, [page |-> page,
                                                   items |-> vacancies.items.elems])
                           ELSE processed
           /\ \/ s.next = "break" /\ pc' = "ret" /\ page' = page
              \/ s.next = "raise" /\ pc' = "crashed" /\ page' = page
              \/ s.next = "continue" /\ pc' = "pause" /\ page' = NextPage(page)
    /\ UNCHANGED <<vacancies, errlog, fetched, pauses>>
    /\ UNCHANGED <<wrapperVars, mainVars, params, histVars, filterVars>>

Pause_skip ==
    /\ pc = "pause"
    /\ pc' = "loop"
    /\ UNCHANGED <<page, all_vacancies, vacancies, errlog, fetched, processed, pauses>>
    /\ UNCHANGED <<wrapperVars, mainVars, params, histVars, filterVars>>

\* line 153
Pause ==
    /\ pc = "pause"
    /\ pauses' = pauses + 1
    /\ pc' = "loop"
    /\ UNCHANGED <<page, all_vacancies, vacancies, errlog, fetched, processed>>
    /\ UNCHANGED <<wrapperVars, mainVars, params, histVars, filterVars>>

MainReport_always ==
    /\ pc = "ret"
    /\ summary' = "found" /\ saves' = saves + 1 /\ pc' = "save_mkdir"
    /\ UNCHANGED file
    /\ UNCHANGED <<driverVars, wrapperVars, params, histVars, filterVars>>

\* lines 155, 179-183: fetch_all returned all_vacancies to main
MainReport ==
    /\ pc = "ret"
    /\ IF all_vacancies # <<>>
       THEN summary' = "found" /\ saves' = saves + 1 /\ pc' = "save_mkdir"
       ELSE summary' = "nothing" /\ saves' = saves /\ pc' = "done"
    /\ UNCHANGED file
    /\ UNCHANGED <<driverVars, wrapperVars, params, histVars, filterVars>>

\* line 161; a failure is caught at lines 168-171
SaveMkdir(ok) ==
    /\ pc = "save_mkdir"
    /\ pc' = IF ok THEN "save_open" ELSE "done"
    /\ UNCHANGED <<driverVars, wrapperVars, mainVars, params, histVars, filterVars>>

\* line 163: open(filename, "w") creates or truncates the file
SaveOpen(ok) ==
    /\ pc = "save_open"
    /\ IF ok THEN file' = File("empty", <<>>) /\ pc' = "save_write"
             ELSE file' = file /\ pc' = "done"
    /\ UNCHANGED <<summary, saves>>
    /\ UNCHANGED <<driverVars, wrapperVars, params, histVars, filterVars>>

\* line 164: json.dump writes the document piece by piece; a failure leaves
\* what was written so far
SaveWrite(ok) ==
    /\ pc = "save_write"
    /\ file' = IF ok THEN File("written", all_vacancies)
                     ELSE File("partial", <<>>)
    /\ pc' = "done"
    /\ UNCHANGED <<summary, saves>>
    /\ UNCHANGED <<driverVars, wrapperVars, params, histVars, filterVars>>

Next ==
    \/ MainStart
    \/ FetchPage
    \/ \E o \in OutcomesAt(page) : Attempt(o)
    \/ Backoff
    \/ FetcherReturn
    \/ DriverStep
    \/ Pause
    \/ MainReport
    \/ \E ok \in BOOLEAN : SaveMkdir(ok)
    \/ \E ok \in BOOLEAN : SaveOpen(ok)
    \/ \E ok \in BOOLEAN : SaveWrite(ok)

Spec == Init /\ [][Next]_vars

\* one thread of control that always takes its next step
LiveSpec == Spec /\ WF_vars(Next)

(***************************************************************************)
(* The run of main() against an API whose `pages` total never changes      *)
(***************************************************************************)
ConstPagesInit ==
    /\ pc = "main"
    /\ max_retries = DEFAULT_MAX_RETRIES
    /\ initial_delay = INITIAL_DELAY
    /\ backoff_factor = BACKOFF_FACTOR
    /\ min_salary = MAIN_MIN_SALARY
    /\ api_pages \in (1 .. MaxTotalPages) \cup {BigPages}
    /\ Fresh
    /\ FilterIdle

ConstPagesSpec == ConstPagesInit /\ [][Next]_vars

(***************************************************************************)
(* One invocation of the wrapper, for every retry budget                   *)
(***************************************************************************)
\* wrapper has just been entered (lines 27-28) with some max_retries
RetryInit ==
    /\ pc = "attempt"
    /\ max_retries \in MaxRetriesValues
    /\ initial_delay \in TimeParams
    /\ backoff_factor \in TimeParams
    /\ min_salary = MAIN_MIN_SALARY
    /\ api_pages = 0
    /\ Fresh
    /\ FilterIdle

RetryNext ==
    \/ \E o \in OutcomesAt(0) : Attempt(o)
    \/ Backoff
    \/ LoopExit

RetrySpec == RetryInit /\ [][RetryNext]_vars

(***************************************************************************)
(* filter_by_salary on its own                                             *)
(***************************************************************************)
Bounds == {NoneB, StrB, Num(0), Num(100000), Num(250000)}
Salaries == {NoSalary, EmptySalary, BadSalary}
                \cup {Salary(f, t) : f \in Bounds, t \in Bounds}
Elements == {Vac(1, s) : s \in Salaries} \cup {NotAVac}
Thresholds == {-1, 0, 100000, MAIN_MIN_SALARY}

RECURSIVE ListsUpTo(_)
ListsUpTo(n) ==
    IF n = 0 THEN {<<>>}
    ELSE LET shorter == ListsUpTo(n - 1)
         IN  shorter \cup {Append(l, e) : l \in shorter, e \in Elements}

FilterInit ==
    /\ f_in \in ListsUpTo(MaxLen)
    /\ f_min \in Thresholds
    /\ f_out = [raised |-> FALSE, out |-> <<>>]
    /\ f_pc = "call"
    /\ pc = "idle"
    /\ max_retries = DEFAULT_MAX_RETRIES
    /\ initial_delay = INITIAL_DELAY
    /\ backoff_factor = BACKOFF_FACTOR
    /\ min_salary = MAIN_MIN_SALARY
    /\ api_pages = 0
    /\ Fresh

\* lines 108-122
FilterCall ==
    /\ f_pc = "call"
    /\ f_out' = filter_by_salary(f_in, f_min)
    /\ f_pc' = "done"
    /\ UNCHANGED <<f_in, f_min, runVars>>

FilterNext == FilterCall

FilterSpec == FilterInit /\ [][FilterNext]_vars

(***************************************************************************)
(* Properties of the retry wrapper (RetrySpec)                             *)
(***************************************************************************)
Returned == pc = "fetcher"

\* C1: when every call of the operation fails retryably (a network error or
\* a retryable status) and max_retries = n >= 0, the wrapper calls it
\* exactly n + 1 times, then returns None, and never raises.
C1_Exhaustion ==
    (max_retries >= 0 /\ nfail = calls) =>
        /\ calls <= max_retries + 1
        /\ Returned <=> calls = max_retries + 1
        /\ Returned => result = RetNone
        /\ result.kind # "raise"

C1_Witness ==
    /\ Returned
    /\ max_retries = DEFAULT_MAX_RETRIES
    /\ calls = 4
    /\ nfail = 4
    /\ result = RetNone

\* C2: a call that returns status 200 after k - 1 retryable failures ends the
\* invocation: the wrapper returns that k-th response after exactly k calls;
\* and the wrapper returns None only after max_retries + 1 calls that all
\* failed retryably.
C2_Recovery ==
    /\ (outcome.kind = "resp" /\ outcome.status = 200) =>
           /\ Returned
           /\ result = RetValue(outcome)
           /\ calls = nfail + 1
           /\ calls <= max_retries + 1
    /\ result.kind = "none" =>
           /\ calls = max_retries + 1
           /\ nfail = calls

C2_Witness ==
    /\ Returned
    /\ outcome.kind = "resp"
    /\ outcome.status = 200
    /\ nfail = 2
    /\ calls = 3
    /\ result = RetValue(outcome)

PassThrough(o) ==
    o.kind = "resp" /\ o.status # 200 /\ o.status \notin RetryableStatusCodes

\* C3: a response whose status is neither 200 nor retryable is returned as
\* it is, at once: it is the last call of the invocation, no sleep follows
\* it, and the result is that very response.
C3_PassThrough ==
    PassThrough(outcome) =>
        /\ Returned
        /\ result = RetValue(outcome)
        /\ calls = nfail + 1
        /\ Len(sleeps) = calls - 1

C3_Witness ==
    /\ Returned
    /\ outcome = Resp(404, NoneValue)
    /\ calls = 3
    /\ Len(sleeps) = 2
    /\ result = RetValue(outcome)

RECURSIVE Pow(_, _)
Pow(b, e) == IF e = 0 THEN 1 ELSE b * Pow(b, e - 1)

RECURSIVE Sum(_)
Sum(q) == IF q = <<>> THEN 0 ELSE q[1] + Sum(Tail(q))

\* C11: an invocation that has made a >= 1 calls has slept a - 1 times, once
\* before each re-attempt and not after the last call; the i-th sleep lasts
\* initial_delay * backoff_factor^(i-1) (1, 2, 4 and 7 in all with the
\* defaults), so the 3rd call comes after at least
\* initial_delay * backoff_factor.
C11_BackoffSchedule ==
    /\ pc = "attempt" => Len(sleeps) = calls
    /\ (pc \in {"backoff", "fetcher"} /\ calls >= 1) => Len(sleeps) = calls - 1
    /\ \A i \in 1 .. Len(sleeps) :
           sleeps[i] = initial_delay * Pow(backoff_factor, i - 1)
    /\ calls >= 3 => Sum(SubSeq(sleeps, 1, 2)) >= initial_delay * backoff_factor
    /\ ( /\ Returned
         /\ result = RetNone
         /\ max_retries = DEFAULT_MAX_RETRIES
         /\ initial_delay = INITIAL_DELAY
         /\ backoff_factor = BACKOFF_FACTOR ) => Sum(sleeps) = 7

C11_Witness ==
    /\ Returned
    /\ result = RetNone
    /\ max_retries = DEFAULT_MAX_RETRIES
    /\ initial_delay = INITIAL_DELAY
    /\ backoff_factor = BACKOFF_FACTOR
    /\ calls = 4
    /\ sleeps = <<1, 2, 4>>

(***************************************************************************)
(* Properties of the run (Spec, LiveSpec)                                  *)
(***************************************************************************)
\* C4: the page indices passed to fetch_hh_vac are 0, 1, ..., k with
\* k <= 19: contiguous from 0, increasing, none twice, at most 20 calls.
C4_PageIndices ==
    /\ Len(fetched) <= PAGE_CAP + 1
    /\ \A i \in 1 .. Len(fetched) : fetched[i] = i - 1

C4_Witness ==
    /\ pc = "done"
    /\ Len(fetched) = 20
    /\ fetched[20] = 19

RECURSIVE Survivors(_, _)
Survivors(ps, m) ==
    IF ps = <<>> THEN <<>>
    ELSE Survivors(SubSeq(ps, 1, Len(ps) - 1), m)
             \o filter_by_salary(ps[Len(ps)].items, m).out

IsPrefix(a, b) == Len(a) <= Len(b) /\ SubSeq(b, 1, Len(a)) = a

AccumulatorInv ==
    /\ \A i \in 1 .. Len(processed) : processed[i].page = i - 1
    /\ all_vacancies = Survivors(processed, min_salary)
    /\ \A i \in 1 .. Len(all_vacancies) :
           Keep(all_vacancies[i], min_salary) = "keep"

\* C5: all_vacancies only grows at its end, and it always equals the
\* concatenation, in page order, of filter_by_salary(items, min_salary) of
\* the pages processed so far, the stopping page included; so every record
\* in it passes the filter.
C5_Accumulator ==
    /\ []AccumulatorInv
    /\ [][IsPrefix(all_vacancies, all_vacancies')]_vars

C5_Witness ==
    /\ pc = "ret"
    /\ Len(processed) = 2
    /\ processed[1].items = <<vTo, vHi>>
    /\ processed[2].items = <<vLo, vHi>>
    /\ all_vacancies = <<vTo, vHi, vHi>>

Terminated == pc \in {"done", "crashed"}

\* C7: every run ends: the page index never passes 19 and grows by one on
\* every iteration that continues, no invocation of the wrapper makes more
\* than max_retries + 1 calls, and the run reaches its end.
C7_Termination ==
    /\ [](page <= PAGE_CAP /\ calls <= max_retries + 1)
    /\ [][pc' = "pause" => page' = page + 1]_vars
    /\ <>Terminated

C7_Witness ==
    /\ pc = "done"
    /\ page = PAGE_CAP
    /\ calls = max_retries + 1
    /\ pauses = PAGE_CAP

\* C8: fetch_all never raises, whatever successfully decoded body
\* fetch_hh_vac hands it, so main always ends normally.
C8_NoExceptionEscapes == pc # "crashed"

ExpectedStructure(b) ==
    b.kind = "object" /\ b.items.tag # "missing" /\ b.pages.tag # "missing"

FetcherReturned == pc = "driver"

\* C9: fetch_hh_vac returns None when make_request reports failure, when
\* the status is not 200, and when the body is not the expected JSON
\* structure (an object with `items` and `pages`).
C9_NoneOnFailure ==
    ( /\ FetcherReturned
      /\ \/ result.kind \in {"none", "raise"}
         \/ result.resp.status # 200
         \/ ~ExpectedStructure(result.resp.body) )
        => vacancies = NoneValue

\* C10: each failure cause logs its own message: None from make_request the
\* request-failed message, a non-200 response the HTTP-status message with
\* the status code, a body that is not JSON the decode-error message.
C10_DistinctMessages ==
    (FetcherReturned /\ result.kind \in {"none", "value"}) =>
        /\ result.kind = "none" => errlog = Msg("request_failed", 0)
        /\ (result.kind = "value" /\ result.resp.status # 200) =>
               errlog = Msg("http_status", result.resp.status)
        /\ ( /\ result.kind = "value"
             /\ result.resp.status = 200
             /\ result.resp.body.kind = "malformed" ) =>
               errlog = Msg("json_error", 0)

(***************************************************************************)
(* Properties of filter_by_salary (FilterSpec)                             *)
(***************************************************************************)
\* a listing record as section 3 of the specification describes it
WellFormed(v) ==
    /\ v.tag = "dict"
    /\ v.salary.tag # "notdict"
    /\ v.salary.from.tag # "str"
    /\ v.salary.to.tag # "str"

Present(b) == b.tag # "none"

\* the membership rule as specified: a bound of 0 is present
SpecKeep(v, m) ==
    /\ v.salary.tag = "dict"
    /\ \/ Present(v.salary.from) /\ v.salary.from.n >= m
       \/ Present(v.salary.to) /\ v.salary.to.n >= m

\* C6: filter([r], m) contains r iff r has a salary mapping and one of its
\* present bounds is >= m, where only None or a missing key is absent and a
\* bound of 0 is present.
C6_Membership ==
    (f_pc = "done" /\ Len(f_in) = 1 /\ WellFormed(f_in[1])) =>
        /\ ~f_out.raised
        /\ f_out.out = <<f_in[1]>> <=> SpecKeep(f_in[1], f_min)
        /\ f_out.out = <<>> <=> ~SpecKeep(f_in[1], f_min)

\* out can be had from in by deleting elements
RECURSIVE IsSubseq(_, _)
IsSubseq(out, in) ==
    IF out = <<>> THEN TRUE
    ELSE IF in = <<>> THEN FALSE
    ELSE IF out[1] = in[1] THEN IsSubseq(Tail(out), Tail(in))
    ELSE IsSubseq(out, Tail(in))

\* C12: the list filter_by_salary returns is a subsequence of its input:
\* kept records in input order, each position at most once, nothing made up
\* or changed, never longer than the input; the input list stays as it was.
C12_FilterShape ==
    /\ []((f_pc = "done" /\ ~f_out.raised) =>
             /\ IsSubseq(f_out.out, f_in)
             /\ Len(f_out.out) <= Len(f_in)
             /\ \A i \in 1 .. Len(f_out.out) :
                    \E j \in 1 .. Len(f_in) : f_out.out[i] = f_in[j])
    /\ [][f_in' = f_in]_vars

C12_Witness ==
    /\ f_pc = "done"
    /\ ~f_out.raised
    /\ Len(f_in) = 2
    /\ f_in[1] # f_in[2]
    /\ f_out.out = f_in

Min(a, b) == IF a <= b THEN a ELSE b

\* C13: when every page response of the run reports the same total
\* pages = P >= 1, fetch_all calls fetch_hh_vac at most min(P, 20) times.
C13_PageCountBound ==
    api_pages >= 1 => Len(fetched) <= Min(api_pages, PAGE_CAP + 1)

C13_Witness ==
    /\ pc = "done"
    /\ api_pages = 3
    /\ Len(fetched) = 3
    /\ Len(processed) = 3

\* fetch_all has left its loop
AfterLoop == {"ret", "save_mkdir", "save_open", "save_write", "done", "crashed"}

FirstNoneStops ==
    (pc = "driver" /\ Len(fetched) = 1 /\ vacancies = NoneValue) =>
        (pc' = "ret" /\ all_vacancies' = <<>> /\ fetched' = fetched)

LoopIsLeft ==
    pc \in AfterLoop =>
        (pc' \in AfterLoop /\ fetched' = fetched /\ all_vacancies' = all_vacancies)

\* C14: when fetch_hh_vac returns None for page 0, fetch_all leaves the loop
\* at once, fetches nothing more and returns the empty list.
C14_FirstPageFailure == [][FirstNoneStops]_vars /\ [][LoopIsLeft]_vars

C14_Witness ==
    /\ pc = "done"
    /\ Len(fetched) = 1
    /\ result = RetNone
    /\ vacancies = NoneValue
    /\ all_vacancies = <<>>

Qualifies(r) == WellFormed(r) /\ SpecKeep(r, min_salary)

\* the records of v.items that meet the threshold
Qualifying(v) == SelectSeq(v.items.elems, Qualifies)

\* page 0 answered with two records, exactly one of them qualifying, and
\* pages = 1
SinglePageCase ==
    /\ page = 0
    /\ vacancies.kind = "object"
    /\ vacancies.items.tag = "list"
    /\ Len(vacancies.items.elems) = 2
    /\ \A i \in 1 .. 2 : WellFormed(vacancies.items.elems[i])
    /\ Len(Qualifying(vacancies)) = 1
    /\ vacancies.pages = Pages(1)

SinglePageStops ==
    (pc = "driver" /\ SinglePageCase) =>
        (pc' = "ret" /\ all_vacancies' = Qualifying(vacancies) /\ fetched' = fetched)

SinglePageResult ==
    (pc \in AfterLoop /\ SinglePageCase) =>
        /\ pc # "crashed"
        /\ Len(fetched) = 1
        /\ all_vacancies = Qualifying(vacancies)
        /\ Len(all_vacancies) = 1
        /\ pc # "ret" => (saves = 1 /\ summary = "found")
        /\ file.state = "written" => file.content = all_vacancies

\* C15: when page 0 holds two records of which exactly one meets the
\* threshold and reports pages = 1, the run makes one fetch, all_vacancies
\* is that one record, and save_to_file is called once with it and writes it
\* to the output file.
C15_SinglePage == []SinglePageResult /\ [][SinglePageStops]_vars

C15_Witness ==
    /\ pc = "done"
    /\ vacancies = Object(Items(<<vLo, vHi>>), Pages(1))
    /\ Len(fetched) = 1
    /\ saves = 1
    /\ file = File("written", <<vHi>>)

\* C16: a save that fails at any step (mkdir, open, write) returns without
\* raising, the run completes, and the destination holds no partial or
\* truncated document: it is as it was before the run.
C16_NoPartialFile ==
    /\ pc # "crashed" \/ saves = 0
    /\ (pc = "done" /\ saves = 1 /\ file.state # "written") => file = PriorFile

\* the response for page p was non-None with a non-empty items list, reported
\* pages > p + 1 (a missing pages counting as 0), and p < 19
ContinuationCondition(v, p) ==
    /\ v.kind = "object"
    /\ v.items.tag = "list"
    /\ v.items.elems # <<>>
    /\ v.pages.tag \in {"int", "missing"}
    /\ (IF v.pages.tag = "missing" THEN 0 ELSE v.pages.n) > p + 1
    /\ p < PAGE_CAP

ContinuationRule ==
    pc = "driver" =>
        ((pc' = "pause" /\ page' = page + 1) <=> ContinuationCondition(vacancies, page))

\* C17: after processing page p the driver goes on to fetch page p + 1 if and
\* only if the response was non-None, had a non-empty items list, reported
\* pages > p + 1 and p < 19, whatever the filter made of the items.
C17_Continuation == [][ContinuationRule]_vars

\* a request is in flight: wrapper is between its first call and its return
InFlight == pc \in {"attempt", "backoff"}

\* one pause between consecutive fetches and none after the last one
PauseCount ==
    /\ pc \in {"main", "loop"} => pauses = Len(fetched)
    /\ pc \notin {"main", "loop"} => pauses = Len(fetched) - 1
    /\ InFlight => (result = Pending /\ fetched[Len(fetched)] = page)

\* a request is issued only from the top of the loop, when the previous page
\* has returned, has been filtered and appended, and one pause has elapsed
IssueInOrder ==
    fetched' # fetched =>
        /\ pc = "loop" /\ pc' = "attempt"
        /\ fetched' = Append(fetched, page)
        /\ fetched # <<>> =>
              /\ result # Pending
              /\ page = fetched[Len(fetched)] + 1
              /\ Len(processed) = Len(fetched)
              /\ processed[Len(processed)].page = fetched[Len(fetched)]
              /\ pauses = Len(fetched)

\* C18: the request for page p + 1 is issued only after the request for page
\* p has completed, its items have been filtered and appended and exactly one
\* inter-page pause has elapsed; one request at a time; no pause after the
\* last fetched page.
C18_SequentialOrdering == []PauseCount /\ [][IssueInOrder]_vars

C18_Witness ==
    /\ pc = "done"
    /\ fetched = <<0, 1, 2>>
    /\ Len(processed) = 3
    /\ pauses = 2

\* an invocation of wrapper begins with retries = 0 and delay = initial_delay
StartsFresh ==
    fetched' # fetched => (retries' = 0 /\ delay' = initial_delay)

\* within an invocation the counters reflect this invocation only
OwnBudget ==
    /\ InFlight => retries = Len(sleeps)
    /\ sleeps # <<>> => sleeps[1] = initial_delay
    /\ pc = "backoff" => calls <= max_retries
    /\ (Returned /\ nfail = calls) => (calls = max_retries + 1 /\ result = RetNone)

\* C19: every invocation of wrapper starts with retries = 0 and
\* delay = initial_delay whatever earlier invocations used, so each page has
\* max_retries + 1 attempts and its first sleep is initial_delay.
C19_RetryIsolation == []OwnBudget /\ [][StartsFresh]_vars

C19_Witness ==
    /\ retried_earlier
    /\ Returned
    /\ Len(fetched) = 2
    /\ calls = max_retries + 1
    /\ nfail = calls
    /\ result = RetNone
    /\ sleeps[1] = initial_delay

\* save_to_file is called at most once, only with a non-empty result, and
\* without a call the output file is as it was before the run
SaveGate ==
    /\ saves <= 1
    /\ saves = 1 => (all_vacancies # <<>> /\ summary = "found")
    /\ saves = 0 => file = PriorFile
    /\ (pc = "done" /\ all_vacancies = <<>>) =>
           (saves = 0 /\ summary = "nothing" /\ file = PriorFile)

SaveOnlyFromMain ==
    saves' # saves => (pc = "ret" /\ all_vacancies # <<>> /\ saves' = 1)

\* C20: main calls save_to_file at most once per run and only when the
\* accumulated result is non-empty; a run that collects nothing never calls
\* it and leaves the output file exactly as it was.
C20_SaveGating == []SaveGate /\ [][SaveOnlyFromMain]_vars

C20_Witness ==
    /\ pc = "done"
    /\ Len(processed) = 1
    /\ processed[1].items # <<>>
    /\ all_vacancies = <<>>
    /\ saves = 0
    /\ summary = "nothing"
    /\ file = PriorFile

====
